---- MODULE Spec2Model ----
(***************************************************************************)
(* The upstream-routing engine of the gateway: Proxy.RouteRequest wraps    *)
(* Proxy.executeRequest (target URL, retry loop with linear backoff under  *)
(* one context deadline) in a per-service gobreaker.CircuitBreaker, and    *)
(* Proxy.GetServiceHealth / GetAllServiceStatus read the breakers.         *)
(* Proxy.copyHeaders copies the inbound headers, and the registry of       *)
(* services comes from the loaders of internal/config.                     *)
(*                                                                         *)
(* Time is counted in ticks of 100ms, the unit of the backoff sleeps.      *)
(* Every request runs on its own goroutine: a worker is at "idle", inside  *)
(* client.Do ("attempt") or inside time.Sleep ("sleep"); the breaker's     *)
(* beforeRequest / afterRequest / State run under the breaker's mutex and  *)
(* are atomic.                                                             *)
(***************************************************************************)
EXTENDS Integers, Sequences, FiniteSets, TLC

\* ------------------------------------------------------------ constants
\* Ticks in a second: one tick is the 100ms of the backoff step.
TicksPerSecond == 10
\* gobreaker.Settings.MaxRequests
MaxRequests == 10
\* gobreaker.Settings.Interval (time.Second), in ticks
Interval == 10
\* A cool-down of one second, the length of the counting interval.
Timeout_OneSecond == TicksPerSecond
\* gobreaker.Settings.Timeout (5 * time.Second), in ticks
Timeout == 50
\* http.Client.Timeout (30 * time.Second), in ticks
ClientTimeout == 300
\* getEnvInt(prefix+"TIMEOUT", 30)
EnvDefaultTimeout == 30
\* getEnvInt(prefix+"MAX_RETRY", 3)
EnvDefaultMaxRetry == 3
\* The zero time.Time.
ZeroTime == -1

\* --------------------------------------------------------------- bounds
\* The clock of the concurrent specification stops at MaxNow.
MaxNow == 11
\* The clock of the sequential specification stops at LongNow.
LongNow == 52
\* Requests admitted to one Closed counting window.
MaxWindow == 4

\* The clock of the retry specification stops at RetryNow.
RetryNow == 14
\* The largest MaxRetry of the retry specification.
MaxRetryBound == 3

\* The longest inbound path (after its leading "/") and query, in tokens.
MaxPathLen == 2
MaxQueryLen == 1

\* The most values one inbound header name carries.
MaxValues == 2

\* In the recovery specification attempts may fail before FailUntil, and every
\* attempt that ends at FailUntil or later is answered; its clock stops at
\* LiveNow, later than a cool-down begun before FailUntil.
FailUntil == 1
LiveNow == 52

\* The clock of the body specification stops at BodyNow; an inbound body has
\* at most MaxBodyLen chunks.
BodyNow == 2
MaxBodyLen == 2

\* The clock of the probe specification stops at ProbeNow.
ProbeNow == 52

\* The clock of the two-service specification stops at TwoNow.
TwoNow == 11

\* The clock of the configuration specification stops at ConfigNow.
ConfigNow == 2
\* The largest integer written in the services file or the environment.
MaxConfigInt == 2

Workers == {"w1", "w2"}
ServiceNames == {"orders"}
\* Two registered services.
TwoServices == {"orders", "users"}
\* A name no service is registered under.
UnknownName == "ghost"

VARIABLES
    now,        \* time.Now(), in ticks
    services,   \* Proxy.services: name -> ServiceConfig
    cb,         \* Proxy.circuitBreakers: name -> breaker
    w,          \* the goroutine of each inbound request
    net,        \* the replies the transport delivered to each request, in order
    ret,        \* what RouteRequest last returned to each caller
    hist,       \* per service: when it last opened, the counts it tripped on
    build,      \* one target URL: the base URL, the inbound request, the result
    hdrs,       \* one header copy: the inbound headers, the outbound headers
    reqs        \* the inbound request of each goroutine: its body, what was sent

vars == <<now, services, cb, w, net, ret, hist, build, hdrs, reqs>>

Min(a, b) == IF a < b THEN a ELSE b

\* ------------------------------------------------------ gobreaker.Counts
ZeroCounts ==
    [Requests |-> 0, TotalSuccesses |-> 0, TotalFailures |-> 0,
     ConsecutiveSuccesses |-> 0, ConsecutiveFailures |-> 0]

CountsOnRequest(c) == [c EXCEPT !.Requests = @ + 1]

CountsOnSuccess(c) ==
    [c EXCEPT !.TotalSuccesses = @ + 1, !.ConsecutiveSuccesses = @ + 1,
              !.ConsecutiveFailures = 0]

CountsOnFailure(c) ==
    [c EXCEPT !.TotalFailures = @ + 1, !.ConsecutiveFailures = @ + 1,
              !.ConsecutiveSuccesses = 0]

\* A ReadyToTrip that forgets the minimum sample of 3 requests.
ReadyToTrip_NoMinimum(counts) ==
    counts.Requests >= 1 /\ 10 * counts.TotalFailures >= 6 * counts.Requests

\* float64(TotalFailures)/float64(Requests) >= 0.6, in integers; 0/0 is NaN
\* and NaN >= 0.6 is false, as is Requests >= 3.
ReadyToTrip(counts) ==
    counts.Requests >= 3 /\ 10 * counts.TotalFailures >= 6 * counts.Requests

\* ------------------------------------------------ gobreaker.CircuitBreaker
toNewGeneration(b, t) ==
    [b EXCEPT !.generation = @ + 1,
              !.counts = ZeroCounts,
              !.expiry = CASE b.state = "Closed" ->
                                IF Interval = 0 THEN ZeroTime ELSE t + Interval
                           [] b.state = "Open" -> t + Timeout
                           [] OTHER -> ZeroTime]

setState(b, st, t) ==
    IF b.state = st THEN b ELSE toNewGeneration([b EXCEPT !.state = st], t)

\* A currentState that takes the expiry itself for expired.
currentState_Eager(b, t) ==
    CASE b.state = "Closed" /\ b.expiry # ZeroTime /\ b.expiry <= t ->
            toNewGeneration(b, t)
      [] b.state = "Open" /\ b.expiry <= t -> setState(b, "HalfOpen", t)
      [] OTHER -> b

currentState(b, t) ==
    CASE b.state = "Closed" /\ b.expiry # ZeroTime /\ b.expiry < t ->
            toNewGeneration(b, t)
      [] b.state = "Open" /\ b.expiry < t -> setState(b, "HalfOpen", t)
      [] OTHER -> b

NewCircuitBreaker(t) ==
    toNewGeneration([state |-> "Closed", generation |-> 0,
                     counts |-> ZeroCounts, expiry |-> ZeroTime], t)

\* A beforeRequest that admits every call to a HalfOpen breaker.
beforeRequest_Unlimited(b, t) ==
    LET c == currentState(b, t) IN
    IF c.state = "Open"
    THEN [cb |-> c, generation |-> c.generation, err |-> "ErrOpenState"]
    ELSE [cb |-> [c EXCEPT !.counts = CountsOnRequest(@)],
          generation |-> c.generation, err |-> "nil"]

\* A beforeRequest that does not look at the state.
beforeRequest_AdmitsOpen(b, t) ==
    LET c == currentState(b, t) IN
    [cb |-> [c EXCEPT !.counts = CountsOnRequest(@)],
     generation |-> c.generation, err |-> "nil"]

beforeRequest(b, t) ==
    LET c == currentState(b, t) IN
    IF c.state = "Open"
    THEN [cb |-> c, generation |-> c.generation, err |-> "ErrOpenState"]
    ELSE IF c.state = "HalfOpen" /\ c.counts.Requests >= MaxRequests
    THEN [cb |-> c, generation |-> c.generation, err |-> "ErrTooManyRequests"]
    ELSE [cb |-> [c EXCEPT !.counts = CountsOnRequest(@)],
          generation |-> c.generation, err |-> "nil"]

\* An onSuccess that counts and never closes a HalfOpen breaker.
onSuccess_CountsOnly(b, t) ==
    IF b.state \in {"Closed", "HalfOpen"}
    THEN [b EXCEPT !.counts = CountsOnSuccess(@)] ELSE b

\* An onSuccess that closes a HalfOpen breaker on its first success.
onSuccess_ClosesAtOnce(b, t) ==
    CASE b.state = "Closed" -> [b EXCEPT !.counts = CountsOnSuccess(@)]
      [] b.state = "HalfOpen" ->
            setState([b EXCEPT !.counts = CountsOnSuccess(@)], "Closed", t)
      [] OTHER -> b

onSuccess(b, t) ==
    CASE b.state = "Closed" -> [b EXCEPT !.counts = CountsOnSuccess(@)]
      [] b.state = "HalfOpen" ->
            LET c == [b EXCEPT !.counts = CountsOnSuccess(@)] IN
            IF c.counts.ConsecutiveSuccesses >= MaxRequests
            THEN setState(c, "Closed", t) ELSE c
      [] OTHER -> b

onFailure(b, t) ==
    CASE b.state = "Closed" ->
            LET c == [b EXCEPT !.counts = CountsOnFailure(@)] IN
            IF ReadyToTrip(c.counts) THEN setState(c, "Open", t) ELSE c
      [] b.state = "HalfOpen" -> setState(b, "Open", t)
      [] OTHER -> b

afterRequest(b, before, success, t) ==
    LET c == currentState(b, t) IN
    IF c.generation # before THEN c
    ELSE IF success THEN onSuccess(c, t) ELSE onFailure(c, t)

\* ------------------------------------------------------- config / replies
\* A ServiceConfig of the registry; Timeout is in seconds.
ServiceConfig(name, timeout, maxRetry) ==
    [Name |-> name, Timeout |-> timeout, MaxRetry |-> maxRetry]

\* The text of an environment variable or of a field of the services file: not
\* there, not a number, or a number.
Unset == [text |-> "unset", number |-> 0]
NotANumber == [text |-> "junk", number |-> 0]
Number(n) == [text |-> "number", number |-> n]

\* getEnvInt: the default when the variable is unset or strconv.Atoi fails,
\* the number otherwise.
getEnvInt(valueStr, defaultValue) ==
    IF valueStr.text # "number" THEN defaultValue ELSE valueStr.number

\* loadUpstreamServicesFromEnv: one service, its TIMEOUT and MAX_RETRY variables.
loadUpstreamServicesFromEnv(name, timeoutStr, maxRetryStr) ==
    ServiceConfig(name, getEnvInt(timeoutStr, EnvDefaultTimeout),
                  getEnvInt(maxRetryStr, EnvDefaultMaxRetry))

\* loadUpstreamServices: yaml.Unmarshal into []ServiceConfig; a field the file
\* does not give keeps the zero value.
loadUpstreamServices(name, timeoutField, maxRetryField) ==
    ServiceConfig(name,
                  IF timeoutField.text = "unset" THEN 0 ELSE timeoutField.number,
                  IF maxRetryField.text = "unset" THEN 0 ELSE maxRetryField.number)

\* The integers a file or a variable gives.
ConfigInts == { Number(n) : n \in (0 - 1)..MaxConfigInt }

\* Every descriptor the loaders produce for the service name.
LoadedConfigs(name) ==
    { loadUpstreamServicesFromEnv(name, t, m) :
         t \in ConfigInts \cup {Unset, NotANumber},
         m \in ConfigInts \cup {Unset, NotANumber} }
    \cup { loadUpstreamServices(name, t, m) :
         t \in ConfigInts \cup {Unset}, m \in ConfigInts \cup {Unset} }

\* What one client.Do, and the io.ReadAll after it, hand to executeRequest.
\*   response:  Do returned a response and its body was read
\*   truncated: Do returned a response and io.ReadAll failed
\*   connerr:   Do failed at transport level
\*   ctxerr:    Do failed because the request's context is done
Reply(kind, status, header, body) ==
    [kind |-> kind, StatusCode |-> status, Header |-> header, Body |-> body]

NoReply == Reply("none", 0, "", "")

LiveReplies ==
    { Reply("response", 200, "h-ok", "b-ok"),
      Reply("response", 500, "h-err", "b-err"),
      Reply("truncated", 200, "h-ok", ""),
      Reply("connerr", 0, "", "") }

CtxReply == Reply("ctxerr", 0, "", "")

\* A ProxyResponse that turns an upstream 5xx into 502.
ProxyResponse_BadGateway(r) ==
    [StatusCode |-> IF r.StatusCode >= 500 THEN 502 ELSE r.StatusCode,
     Headers |-> r.Header, Body |-> r.Body]

\* &ProxyResponse{StatusCode: resp.StatusCode, Headers: resp.Header, Body: body}
ProxyResponse(r) ==
    [StatusCode |-> r.StatusCode, Headers |-> r.Header, Body |-> r.Body]

NoResponse == [StatusCode |-> 0, Headers |-> "", Body |-> ""]

\* What RouteRequest(req, name) returned: an error or a ProxyResponse, with
\* the attempts and sleeps the call made. Pending: it has not returned yet.
Returned(name, kind, resp, attempts, sleeps) ==
    [name |-> name, kind |-> kind, resp |-> resp, attempts |-> attempts,
     sleeps |-> sleeps]

Pending(name) == Returned(name, "none", NoResponse, 0, <<>>)

NothingReturned == Pending("")

IdleWorker ==
    [pc |-> "idle", svc |-> "", generation |-> 0, attempt |-> 0,
     started |-> 0, deadline |-> 0, sleepAt |-> 0, wakeAt |-> 0,
     slept |-> <<>>, cancelled |-> FALSE, early |-> FALSE]

\* A Backoff that does not grow.
Backoff_Constant(attempt) == 1

\* time.Duration((attempt+1)*100) * time.Millisecond, in ticks
Backoff(attempt) == (attempt + 1) * 1

\* context.WithTimeout(req.Context(), service.Timeout * time.Second), made once
\* before the retry loop.
ContextDeadline(service, t) == t + service.Timeout * TicksPerSecond

\* The moment the attempt in flight is aborted: the context's deadline or the
\* http.Client's own Timeout, counted from the start of the attempt.
AttemptDeadline(x) == Min(x.deadline, x.started + ClientTimeout)

ContextDone(x, t) == x.cancelled \/ t >= AttemptDeadline(x)

\* if attempt < service.MaxRetry-1 { time.Sleep(...) }
SleepsAfter(attempt, maxRetry) == attempt < maxRetry - 1

\* attempt := 0; attempt < service.MaxRetry
LoopEnters(maxRetry) == 0 < maxRetry

\* attempt++; attempt < service.MaxRetry
LoopContinues(attempt, maxRetry) == attempt + 1 < maxRetry

\* ------------------------------------------------------------ net/url
\* A URL's text is a sequence of tokens: "O" is a scheme and authority
\* ("http://host"), "/" and "a" are path characters, "%2F" is an escaped "/",
\* "?" starts the query, "k", "q" and "&" are query characters.
SeqsUpTo(S, n) == UNION { [1..m -> S] : m \in 0..n }

IndexOf(u, c) ==
    IF \E i \in 1..Len(u) : u[i] = c
    THEN CHOOSE i \in 1..Len(u) : u[i] = c /\ \A j \in 1..(i - 1) : u[j] # c
    ELSE 0

\* unescape(s, encodePath)
Unescape(p) == [i \in 1..Len(p) |-> IF p[i] = "%2F" THEN "/" ELSE p[i]]

\* escape(s, encodePath): "/" and letters are kept as they are.
Escape(p) == [i \in 1..Len(p) |-> IF p[i] = " " THEN "%20" ELSE p[i]]

\* URL.setPath: Path is the decoded path, RawPath is kept only when the given
\* encoding is not the default one.
SetPath(u, p) ==
    [u EXCEPT !.Path = Unescape(p),
              !.RawPath = IF Escape(Unescape(p)) = p THEN <<>> ELSE p]

\* url.Parse of "O" path ["?" query], and of an inbound request target.
ParseURL(text) ==
    LET q == IndexOf(text, "?")
        hasOrigin == Len(text) > 0 /\ text[1] = "O"
        from == IF hasOrigin THEN 2 ELSE 1
        upto == IF q = 0 THEN Len(text) ELSE q - 1 IN
    SetPath([Origin |-> IF hasOrigin THEN <<"O">> ELSE <<>>,
             Path |-> <<>>, RawPath |-> <<>>,
             RawQuery |-> IF q = 0 THEN <<>> ELSE SubSeq(text, q + 1, Len(text))],
            SubSeq(text, from, upto))

\* URL.EscapedPath
EscapedPath(u) ==
    IF u.RawPath # <<>> /\ Unescape(u.RawPath) = u.Path
    THEN u.RawPath ELSE Escape(u.Path)

\* URL.String
URLString(u) ==
    LET p == EscapedPath(u) IN
    u.Origin
    \o (IF p # <<>> /\ p[1] # "/" /\ u.Origin # <<>> THEN <<"/">> ELSE <<>>)
    \o p
    \o (IF u.RawQuery # <<>> THEN <<"?">> \o u.RawQuery ELSE <<>>)

\* executeRequest: targetURL := url.Parse(service.URL); targetURL.Path =
\* req.URL.Path; targetURL.RawQuery = req.URL.RawQuery; targetURL.String()
TargetURL(baseURL, reqURL) ==
    URLString([ParseURL(baseURL) EXCEPT !.Path = reqURL.Path,
                                        !.RawQuery = reqURL.RawQuery])

BaseURLs ==
    { <<"O">>, <<"O", "/", "a">>, <<"O", "/", "a", "?", "k">> }

\* Inbound paths as the client sent them: they start with "/".
InboundPaths ==
    { <<"/">> \o p : p \in SeqsUpTo({"/", "a", "%2F"}, MaxPathLen) }

InboundQueries == SeqsUpTo({"q", "&"}, MaxQueryLen)

\* The request target the client sent: path ["?" query].
RequestTarget(path, query) ==
    path \o (IF query # <<>> THEN <<"?">> \o query ELSE <<>>)

NoBuild == [base |-> <<>>, path |-> <<>>, query |-> <<>>, target |-> <<>>, done |-> FALSE]

\* ------------------------------------------------------------ net/http.Header
\* A header name is a sequence of characters; a Header maps the names it holds
\* to the sequence of their values.
UpperLetters ==
    <<"A", "B", "C", "D", "E", "F", "G", "H", "I", "J", "K", "L", "M",
      "N", "O", "P", "Q", "R", "S", "T", "U", "V", "W", "X", "Y", "Z">>

LowerLetters ==
    <<"a", "b", "c", "d", "e", "f", "g", "h", "i", "j", "k", "l", "m",
      "n", "o", "p", "q", "r", "s", "t", "u", "v", "w", "x", "y", "z">>

LowerOf(c) ==
    IF \E i \in 1..Len(UpperLetters) : UpperLetters[i] = c
    THEN LowerLetters[CHOOSE i \in 1..Len(UpperLetters) : UpperLetters[i] = c]
    ELSE c

UpperOf(c) ==
    IF \E i \in 1..Len(LowerLetters) : LowerLetters[i] = c
    THEN UpperLetters[CHOOSE i \in 1..Len(LowerLetters) : LowerLetters[i] = c]
    ELSE c

\* strings.ToLower
ToLower(key) == [i \in 1..Len(key) |-> LowerOf(key[i])]

\* textproto.CanonicalMIMEHeaderKey, which Header.Add applies to the name: the
\* first letter and every letter after a "-" in upper case, the others in lower.
CanonicalMIMEHeaderKey(key) ==
    [i \in 1..Len(key) |->
        IF i = 1 \/ key[i - 1] = "-" THEN UpperOf(key[i]) ELSE LowerOf(key[i])]

\* copyHeaders: skipHeaders
skipHeaders ==
    { <<"h", "o", "s", "t">>,
      <<"c", "o", "n", "n", "e", "c", "t", "i", "o", "n">>,
      <<"c", "o", "n", "t", "e", "n", "t", "-", "l", "e", "n", "g", "t", "h">>,
      <<"t", "r", "a", "n", "s", "f", "e", "r", "-", "e", "n", "c", "o", "d", "i", "n", "g">>,
      <<"u", "p", "g", "r", "a", "d", "e">> }

\* A test of the name as it is spelled.
Skipped_CaseSensitive(key) == key \in skipHeaders

\* if skipHeaders[strings.ToLower(key)] { continue }
Skipped(key) == ToLower(key) \in skipHeaders

\* Header.Add(key, value)
HeaderAdd(dst, key, value) ==
    LET k == CanonicalMIMEHeaderKey(key) IN
    IF k \in DOMAIN dst THEN [dst EXCEPT ![k] = Append(@, value)]
    ELSE [n \in DOMAIN dst \cup {k} |-> IF n = k THEN <<value>> ELSE dst[n]]

\* for _, value := range values { dst.Add(key, value) }, from values[i] on
RECURSIVE AddValues(_, _, _, _)
AddValues(dst, key, values, i) ==
    IF i > Len(values) THEN dst
    ELSE AddValues(HeaderAdd(dst, key, values[i]), key, values, i + 1)

\* for key, values := range src { ... }: the map is ranged over in the order
\* order, from order[i] on.
RECURSIVE copyHeaders(_, _, _, _)
copyHeaders(src, dst, order, i) ==
    IF i > Len(order) THEN dst
    ELSE LET key == order[i] IN
         copyHeaders(src,
                     IF Skipped(key) THEN dst ELSE AddValues(dst, key, src[key], 1),
                     order, i + 1)

\* The orders a map with the keys S can be ranged over in.
RangeOrders(S) ==
    { o \in [1..Cardinality(S) -> S] :
         \A i, j \in 1..Cardinality(S) : i # j => o[i] # o[j] }

\* http.NewRequest: the outbound request starts with no header.
EmptyHeader == [n \in {} |-> <<>>]

\* Inbound header names: deny-listed ones in upper and in lower case, and one
\* other name in two spellings.
HeaderKeys ==
    { <<"H", "O", "S", "T">>, <<"u", "p", "g", "r", "a", "d", "e">>,
      <<"X", "-", "A">>, <<"x", "-", "a">> }

HeaderValues == {"v1", "v2"}

NoCopy == [src |-> EmptyHeader, dst |-> EmptyHeader, done |-> FALSE]

\* ------------------------------------------------------- the inbound request
\* req.Body, handed as it is to http.NewRequest: the outbound request has no
\* GetBody, so every client.Do reads from this one reader and the transport
\* closes it when the attempt ends. Body is the body in chunks, read the chunks
\* consumed so far, sent what each attempt transmitted. kind tells what a Read
\* after Close does: "server" (the body of a net/http server request: it fails)
\* or "keeps" (a NopCloser over a reader: it goes on where the reader stands).
InboundRequest(body, kind) ==
    [Body |-> body, kind |-> kind, read |-> 0, closed |-> FALSE, sent |-> <<>>]

\* A request without a body (http.NoBody).
NoRequest == InboundRequest(<<>>, "server")

Bodiless == [wk \in Workers |-> NoRequest]

\* The Read of the attempt fails: the body was closed by an earlier attempt.
BodyReadFails(q) == q.closed /\ q.kind = "server" /\ Len(q.Body) > 0

\* The numbers of chunks the attempt can read and transmit.
BodyReads(q) == IF BodyReadFails(q) THEN {0} ELSE 0..(Len(q.Body) - q.read)

\* The attempt transmitted n chunks; the transport closed the body.
AfterAttempt(q, n) ==
    [q EXCEPT !.read = @ + n, !.closed = TRUE,
              !.sent = Append(@, SubSeq(q.Body, q.read + 1, q.read + n))]

\* ---------------------------------------------------------------- ghosts
NoHistory == [openedAt |-> ZeroTime, tripCounts |-> [Requests |-> 0, TotalFailures |-> 0]]

Recorded(h, old, new, t) ==
    [openedAt |-> IF new.state = "Open" /\ old.state # "Open" THEN t ELSE h.openedAt,
     tripCounts |-> IF new.state = "Open" /\ old.state = "Closed"
                    THEN [Requests |-> old.counts.Requests,
                          TotalFailures |-> old.counts.TotalFailures + 1]
                    ELSE h.tripCounts]

\* ---------------------------------------------------------------- actions
\* RouteRequest up to its first blocking call: the lookup, the breaker's
\* beforeRequest and executeRequest up to the first client.Do.
RouteRequest(wk, name) ==
    /\ w[wk].pc = "idle"
    /\ IF name \notin DOMAIN services
       THEN /\ ret' = [ret EXCEPT ![wk] = Returned(name, "ServiceNotFound", NoResponse, 0, <<>>)]
            /\ net' = [net EXCEPT ![wk] = <<>>]
            /\ UNCHANGED <<cb, w, hist>>
       ELSE LET r == beforeRequest(cb[name], now) IN
            /\ r.cb.state = "Closed" => r.cb.counts.Requests <= MaxWindow
            /\ net' = [net EXCEPT ![wk] = <<>>]
            /\ IF r.err # "nil"
               THEN /\ cb' = [cb EXCEPT ![name] = r.cb]
                    /\ ret' = [ret EXCEPT ![wk] = Returned(name, r.err, NoResponse, 0, <<>>)]
                    /\ UNCHANGED w
               ELSE IF ~LoopEnters(services[name].MaxRetry)
               THEN \* no attempt is made: err and resp are nil, and the deferred
                    \* resp.Body.Close() dereferences nil; Execute recovers the
                    \* panic, records a failure and panics again.
                    /\ cb' = [cb EXCEPT ![name] =
                                  afterRequest(r.cb, r.generation, FALSE, now)]
                    /\ ret' = [ret EXCEPT ![wk] = Returned(name, "Panic", NoResponse, 0, <<>>)]
                    /\ UNCHANGED w
               ELSE /\ cb' = [cb EXCEPT ![name] = r.cb]
                    /\ ret' = [ret EXCEPT ![wk] = Pending(name)]
                    /\ w' = [w EXCEPT ![wk] =
                          [IdleWorker EXCEPT !.pc = "attempt", !.svc = name,
                               !.generation = r.generation, !.started = now,
                               !.deadline = ContextDeadline(services[name], now)]]
            /\ hist' = [hist EXCEPT ![name] = Recorded(@, cb[name], cb'[name], now)]
    /\ reqs' = [reqs EXCEPT ![wk] = InboundRequest(@.Body, @.kind)]
    /\ UNCHANGED <<now, services, build, hdrs>>

\* A Finish that records the outcome in one window shared by all services.
Finish_SharedWindow(wk, kind, resp, success) ==
    LET x == w[wk] IN
    /\ cb' = [s \in DOMAIN cb |-> afterRequest(cb[s], x.generation, success, now)]
    /\ hist' = [s \in DOMAIN cb |-> Recorded(hist[s], cb[s], cb'[s], now)]
    /\ ret' = [ret EXCEPT ![wk] = Returned(x.svc, kind, resp, x.attempt + 1, x.slept)]
    /\ w' = [w EXCEPT ![wk] = IdleWorker]

\* executeRequest returns (value or error), the breaker's afterRequest runs and
\* RouteRequest returns to its caller.
Finish(wk, kind, resp, success) ==
    LET x == w[wk]
        b == afterRequest(cb[x.svc], x.generation, success, now) IN
    /\ cb' = [cb EXCEPT ![x.svc] = b]
    /\ hist' = [hist EXCEPT ![x.svc] = Recorded(@, cb[x.svc], b, now)]
    /\ ret' = [ret EXCEPT ![wk] = Returned(x.svc, kind, resp, x.attempt + 1, x.slept)]
    /\ w' = [w EXCEPT ![wk] = IdleWorker]

\* The loop goes round: the next client.Do, under the context made before the loop.
NextAttempt(wk) ==
    /\ w' = [w EXCEPT ![wk] = [@ EXCEPT !.pc = "attempt", !.attempt = @ + 1,
                                      !.started = now]]
    /\ UNCHANGED <<cb, ret, hist>>

\* client.Do returns for the attempt in flight, with reply r.
DoReturns(wk, r) ==
    LET x == w[wk] IN
    /\ x.pc = "attempt"
    /\ IF ContextDone(x, now) THEN r = CtxReply ELSE r \in LiveReplies
    /\ BodyReadFails(reqs[wk]) => r.kind \in {"connerr", "ctxerr"}
    /\ \E n \in BodyReads(reqs[wk]) : reqs' = [reqs EXCEPT ![wk] = AfterAttempt(@, n)]
    /\ net' = [net EXCEPT ![wk] = Append(@, r)]
    /\ CASE r.kind = "response" -> Finish(wk, "Response", ProxyResponse(r), TRUE)
         [] r.kind = "truncated" -> Finish(wk, "ReadBodyFailed", NoResponse, FALSE)
         [] OTHER ->
              IF SleepsAfter(x.attempt, services[x.svc].MaxRetry)
              THEN /\ w' = [w EXCEPT ![wk] = [x EXCEPT !.pc = "sleep", !.sleepAt = now,
                                                 !.wakeAt = now + Backoff(x.attempt)]]
                   /\ UNCHANGED <<cb, ret, hist>>
              ELSE IF LoopContinues(x.attempt, services[x.svc].MaxRetry)
              THEN NextAttempt(wk)
              ELSE Finish(wk, "AllRetriesFailed", NoResponse, FALSE)
    /\ UNCHANGED <<now, services, build, hdrs>>

\* time.Sleep returns; the loop goes round or ends.
Wake(wk) ==
    LET x == [w[wk] EXCEPT !.slept = Append(@, now - w[wk].sleepAt)] IN
    /\ w[wk].pc = "sleep"
    /\ now >= w[wk].wakeAt
    /\ IF LoopContinues(x.attempt, services[x.svc].MaxRetry)
       THEN /\ w' = [w EXCEPT ![wk] = [x EXCEPT !.pc = "attempt", !.attempt = @ + 1,
                                             !.started = now]]
            /\ UNCHANGED <<cb, ret, hist>>
       ELSE /\ cb' = [cb EXCEPT ![x.svc] = afterRequest(@, x.generation, FALSE, now)]
            /\ hist' = [hist EXCEPT ![x.svc] = Recorded(@, cb[x.svc], cb'[x.svc], now)]
            /\ ret' = [ret EXCEPT ![wk] =
                           Returned(x.svc, "AllRetriesFailed", NoResponse, x.attempt + 1,
                                    x.slept)]
            /\ w' = [w EXCEPT ![wk] = IdleWorker]
    /\ UNCHANGED <<now, services, net, build, hdrs, reqs>>

\* The inbound caller's context is cancelled (disconnect, or its own deadline).
\* early: no attempt of the request had completed at that moment.
Cancel(wk) ==
    /\ w[wk].pc # "idle"
    /\ ~w[wk].cancelled
    /\ w' = [w EXCEPT ![wk].cancelled = TRUE,
                      ![wk].early = (w[wk].pc = "attempt" /\ w[wk].attempt = 0)]
    /\ UNCHANGED <<now, services, cb, net, ret, hist, build, hdrs, reqs>>

\* GetServiceHealth: cb.State() under the breaker's mutex; the state it returns
\* is the breaker's state after the step. An unknown name changes nothing.
GetServiceHealth(name) ==
    /\ cb' = IF name \in DOMAIN cb
             THEN [cb EXCEPT ![name] = currentState(@, now)] ELSE cb
    /\ hist' = IF name \in DOMAIN cb
               THEN [hist EXCEPT ![name] = Recorded(@, cb[name], cb'[name], now)]
               ELSE hist
    /\ UNCHANGED <<now, services, w, net, ret, build, hdrs, reqs>>

\* GetAllServiceStatus: GetServiceHealth of every breaker.
GetAllServiceStatus ==
    /\ cb' = [s \in DOMAIN cb |-> currentState(cb[s], now)]
    /\ hist' = [s \in DOMAIN cb |-> Recorded(hist[s], cb[s], cb'[s], now)]
    /\ UNCHANGED <<now, services, w, net, ret, build, hdrs, reqs>>

\* 100ms pass. A pending client.Do is aborted when its context is done and a
\* sleeping goroutine wakes when its sleep is over: time does not pass them by.
Tick(limit) ==
    /\ now < limit
    /\ \A wk \in Workers :
          /\ w[wk].pc = "attempt" => ~ContextDone(w[wk], now)
          /\ w[wk].pc = "sleep" => now < w[wk].wakeAt
    /\ now' = now + 1
    /\ UNCHANGED <<services, cb, w, net, ret, hist, build, hdrs, reqs>>

\* ------------------------------------------------------- specifications
\* NewProxy: the registry and one breaker per service.
NewProxy(registry) ==
    /\ now = 0
    /\ services = registry
    /\ cb = [s \in DOMAIN registry |-> NewCircuitBreaker(0)]
    /\ w = [wk \in Workers |-> IdleWorker]
    /\ net = [wk \in Workers |-> <<>>]
    /\ ret = [wk \in Workers |-> NothingReturned]
    /\ hist = [s \in DOMAIN registry |-> NoHistory]

Names == ServiceNames \cup {UnknownName}
Replies == LiveReplies \cup {CtxReply}

\* Concurrent requests to one service over a short horizon.
Init == NewProxy([s \in ServiceNames |-> ServiceConfig(s, 1, 1)]) /\ build = NoBuild /\ hdrs = NoCopy /\ reqs = Bodiless

Next ==
    \/ \E wk \in Workers, name \in Names : RouteRequest(wk, name)
    \/ \E wk \in Workers, r \in Replies : DoReturns(wk, r)
    \/ \E name \in Names : GetServiceHealth(name)
    \/ GetAllServiceStatus
    \/ Tick(MaxNow)

Spec == Init /\ [][Next]_vars

\* One caller at a time over a horizon longer than the breaker's cool-down.
InitLong == NewProxy([s \in ServiceNames |-> ServiceConfig(s, 1, 1)]) /\ build = NoBuild /\ hdrs = NoCopy /\ reqs = Bodiless

NextLong ==
    \/ \E name \in Names : RouteRequest("w1", name)
    \/ \E r \in Replies : DoReturns("w1", r)
    \/ \E name \in Names : GetServiceHealth(name)
    \/ GetAllServiceStatus
    \/ Tick(LongNow)

SpecLong == InitLong /\ [][NextLong]_vars

\* One request at a time, for every retry budget, with callers that give up.
InitRetry ==
    /\ \E n \in 1..MaxRetryBound :
          NewProxy([s \in ServiceNames |-> ServiceConfig(s, 1, n)])
    /\ build = NoBuild /\ hdrs = NoCopy /\ reqs = Bodiless

NextRetry ==
    \/ \E name \in ServiceNames : RouteRequest("w1", name)
    \/ \E r \in Replies : DoReturns("w1", r)
    \/ Wake("w1")
    \/ Cancel("w1")
    \/ Tick(RetryNow)

SpecRetry == InitRetry /\ [][NextRetry]_vars

\* Two services over one counting interval, each with its own caller; the
\* callers run concurrently.
InitTwo ==
    /\ NewProxy([s \in TwoServices |-> ServiceConfig(s, 1, 1)])
    /\ build = NoBuild /\ hdrs = NoCopy /\ reqs = Bodiless

NextTwo ==
    \/ RouteRequest("w1", "orders")
    \/ RouteRequest("w2", "users")
    \/ \E wk \in Workers, r \in Replies : DoReturns(wk, r)
    \/ \E name \in TwoServices : GetServiceHealth(name)
    \/ Tick(TwoNow)

SpecTwo == InitTwo /\ [][NextTwo]_vars

\* Recovery: route calls keep arriving for one service whose upstream, from
\* FailUntil on, answers every attempt before the attempt's deadline; nothing
\* else happens but the passage of time.
InitLive == NewProxy([s \in ServiceNames |-> ServiceConfig(s, 1, 1)])
            /\ build = NoBuild /\ hdrs = NoCopy /\ reqs = Bodiless

Arrives == RouteRequest("w1", "orders")

Answers ==
    \E r \in Replies :
        /\ now >= FailUntil => r.kind = "response"
        /\ DoReturns("w1", r)

Passes ==
    /\ (now + 1 >= FailUntil /\ w["w1"].pc = "attempt")
          => now + 1 < AttemptDeadline(w["w1"])
    /\ Tick(LiveNow)

NextLive == Arrives \/ Answers \/ Passes

SpecLive ==
    /\ InitLive /\ [][NextLive]_vars
    /\ WF_vars(Arrives) /\ WF_vars(Answers) /\ WF_vars(Passes)

\* Concurrent probes. The specification starts where three calls of w1, made
\* one after the other at time 0 and all refused by the upstream, have opened
\* the breaker of NewProxy; then two callers run concurrently through the
\* cool-down and the HalfOpen period after it.
RECURSIVE FailedCalls(_, _, _)
FailedCalls(b, n, t) ==
    IF n = 0 THEN b
    ELSE LET before == beforeRequest(FailedCalls(b, n - 1, t), t) IN
         afterRequest(before.cb, before.generation, FALSE, t)

InitProbe ==
    /\ now = 0
    /\ services = [s \in ServiceNames |-> ServiceConfig(s, 1, 1)]
    /\ cb = [s \in ServiceNames |-> FailedCalls(NewCircuitBreaker(0), 3, 0)]
    /\ w = [wk \in Workers |-> IdleWorker]
    /\ net = [wk \in Workers |-> IF wk = "w1" THEN <<Reply("connerr", 0, "", "")>> ELSE <<>>]
    /\ ret = [wk \in Workers |->
                IF wk = "w1" THEN Returned("orders", "AllRetriesFailed", NoResponse, 1, <<>>)
                ELSE NothingReturned]
    /\ hist = [s \in ServiceNames |->
                 [openedAt |-> 0, tripCounts |-> [Requests |-> 3, TotalFailures |-> 3]]]
    /\ build = NoBuild /\ hdrs = NoCopy
    /\ reqs = [wk \in Workers |->
                 IF wk = "w1" THEN AfterAttempt(NoRequest, 0) ELSE NoRequest]

NextProbe ==
    \/ \E wk \in Workers : RouteRequest(wk, "orders")
    \/ \E wk \in Workers, r \in Replies : DoReturns(wk, r)
    \/ Tick(ProbeNow)

SpecProbe == InitProbe /\ [][NextProbe]_vars

\* One request at a time, with or without a body, to a service with one retry.
BodyChunks == {"x", "y"}

InitBody ==
    /\ NewProxy([s \in ServiceNames |-> ServiceConfig(s, 1, 2)])
    /\ build = NoBuild /\ hdrs = NoCopy
    /\ \E body \in SeqsUpTo(BodyChunks, MaxBodyLen), kind \in {"server", "keeps"} :
          reqs = [wk \in Workers |->
                    IF wk = "w1" THEN InboundRequest(body, kind) ELSE NoRequest]

NextBody ==
    \/ RouteRequest("w1", "orders")
    \/ \E r \in Replies : DoReturns("w1", r)
    \/ Wake("w1")
    \/ Tick(BodyNow)

SpecBody == InitBody /\ [][NextBody]_vars

\* One request at a time, for every descriptor the loaders produce.
InitConfig ==
    /\ \E c \in LoadedConfigs("orders") : NewProxy([s \in ServiceNames |-> c])
    /\ build = NoBuild /\ hdrs = NoCopy /\ reqs = Bodiless

NextConfig ==
    \/ \E name \in Names : RouteRequest("w1", name)
    \/ \E r \in Replies : DoReturns("w1", r)
    \/ Wake("w1")
    \/ Tick(ConfigNow)

SpecConfig == InitConfig /\ [][NextConfig]_vars

\* executeRequest's target URL, for one base URL and one inbound request.
BuildTarget ==
    /\ ~build.done
    /\ build' = [build EXCEPT
           !.target = TargetURL(build.base,
                                ParseURL(RequestTarget(build.path, build.query))),
           !.done = TRUE]
    /\ UNCHANGED <<now, services, cb, w, net, ret, hist, hdrs, reqs>>

InitURL ==
    /\ NewProxy([s \in ServiceNames |-> ServiceConfig(s, 1, 1)])
    /\ \E b \in BaseURLs, p \in InboundPaths, q \in InboundQueries :
          build = [base |-> b, path |-> p, query |-> q, target |-> <<>>, done |-> FALSE]
    /\ hdrs = NoCopy /\ reqs = Bodiless

SpecURL == InitURL /\ [][BuildTarget]_vars

\* copyHeaders(req.Header, proxyReq.Header), for one inbound header.
CopyHeaders ==
    /\ ~hdrs.done
    /\ \E order \in RangeOrders(DOMAIN hdrs.src) :
          hdrs' = [hdrs EXCEPT !.dst = copyHeaders(hdrs.src, EmptyHeader, order, 1),
                               !.done = TRUE]
    /\ UNCHANGED <<now, services, cb, w, net, ret, hist, build, reqs>>

InitHeaders ==
    /\ NewProxy([s \in ServiceNames |-> ServiceConfig(s, 1, 1)])
    /\ build = NoBuild /\ reqs = Bodiless
    /\ \E K \in SUBSET HeaderKeys :
          \E src \in [K -> SeqsUpTo(HeaderValues, MaxValues)] :
              hdrs = [src |-> src, dst |-> EmptyHeader, done |-> FALSE]

SpecHeaders == InitHeaders /\ [][CopyHeaders]_vars

\* ================================================================ claims
\* Steps of one goroutine, told by what they change.
Begins(wk) == w[wk].pc = "idle" /\ (w'[wk].pc # "idle" \/ ret'[wk] # ret[wk])
Completes(wk) == w[wk].pc = "attempt" /\ Len(net'[wk]) = Len(net[wk]) + 1
Delivered(wk) == net'[wk][Len(net'[wk])]

\* C1: a RouteRequest that begins while the service's breaker is Open, less
\* than the 5s cool-down after it opened, returns ErrOpenState and never enters
\* executeRequest (no attempt begins, nothing is asked of the transport),
\* whatever the other goroutines are doing.
C1_OpenNeverExecutes ==
    [][\A wk \in Workers, s \in ServiceNames :
          ( /\ Begins(wk)
            /\ ret'[wk].name = s
            /\ cb[s].state = "Open"
            /\ now < hist[s].openedAt + 5 * TicksPerSecond )
          => /\ w'[wk].pc = "idle"
             /\ ret'[wk].kind = "ErrOpenState"
             /\ net'[wk] = <<>>
             /\ cb'[s] = cb[s]]_vars

\* C1 witness: a call was rejected by the Open breaker while a call admitted
\* before it opened is still in flight.
C1_Witness ==
    \E wk \in Workers, other \in Workers, s \in ServiceNames :
        /\ wk # other
        /\ ret[wk].kind = "ErrOpenState"
        /\ ret[wk].name = s
        /\ cb[s].state = "Open"
        /\ now < hist[s].openedAt + 5 * TicksPerSecond
        /\ w[other].pc = "attempt"

\* C2 as stated: a Closed breaker whose window holds only finished calls never
\* shows counts with requests >= 3 and failures/requests >= 0.6 (with such
\* counts it is Open), whatever the order of the outcomes.
C2_TripsOnCounts ==
    \A s \in ServiceNames :
        LET c == cb[s].counts IN
        ( /\ cb[s].state = "Closed"
          /\ c.Requests = c.TotalSuccesses + c.TotalFailures )
        => ~(c.Requests >= 3 /\ 10 * c.TotalFailures >= 6 * c.Requests)

\* C2 amended: the trip check runs when a failure is recorded, and only then.
\* A Closed breaker moves to Open exactly when a failed call is recorded in the
\* current counting interval and the counts with that failure have requests >= 3
\* and failures/requests >= 0.6; a recorded success never opens it.
C2_TripsOnRecordedFailure ==
    [][\A s \in ServiceNames :
          LET c == cb[s].counts
              d == cb'[s].counts IN
          /\ (cb[s].state = "Closed" /\ cb'[s].state = "Open")
                => /\ c.Requests >= 3
                   /\ 10 * (c.TotalFailures + 1) >= 6 * c.Requests
                   /\ \E wk \in Workers :
                         /\ Completes(wk)
                         /\ Delivered(wk).kind # "response"
          /\ ( /\ cb[s].state = "Closed" /\ cb'[s].state = "Closed"
               /\ cb'[s].generation = cb[s].generation
               /\ d.TotalFailures = c.TotalFailures + 1 )
                => ~(d.Requests >= 3 /\ 10 * d.TotalFailures >= 6 * d.Requests)
          /\ ( /\ cb[s].state = "Closed"
               /\ cb'[s].generation = cb[s].generation
               /\ d.TotalSuccesses = c.TotalSuccesses + 1 )
                => cb'[s].state = "Closed"]_vars

\* C2 witness: the breaker is Open, having tripped on {requests:3, failures:2}.
C2_Witness ==
    \E s \in ServiceNames :
        /\ cb[s].state = "Open"
        /\ hist[s].tripCounts = [Requests |-> 3, TotalFailures |-> 2]

\* C3 as stated: a successful probe admitted by the HalfOpen breaker leaves the
\* breaker Closed when it returns.
C3_OneProbeCloses ==
    [][\A wk \in Workers, s \in ServiceNames :
          ( /\ Completes(wk) /\ w[wk].svc = s
            /\ Delivered(wk).kind = "response"
            /\ cb[s].state = "HalfOpen"
            /\ w[wk].generation = cb[s].generation )
          => cb'[s].state = "Closed"]_vars

\* C3 amended: a successful probe admitted by the HalfOpen breaker leaves it
\* Closed when it is the 10th consecutive successful probe of that HalfOpen
\* period, and HalfOpen when it is an earlier one.
C3_TenProbesClose ==
    [][\A wk \in Workers, s \in ServiceNames :
          ( /\ Completes(wk) /\ w[wk].svc = s
            /\ Delivered(wk).kind = "response"
            /\ cb[s].state = "HalfOpen"
            /\ w[wk].generation = cb[s].generation )
          => IF cb[s].counts.ConsecutiveSuccesses + 1 >= 10
             THEN cb'[s].state = "Closed"
             ELSE /\ cb'[s].state = "HalfOpen"
                  /\ cb'[s].counts.ConsecutiveSuccesses
                        = cb[s].counts.ConsecutiveSuccesses + 1]_vars

\* C3 witness: the breaker has been Open and is Closed again.
C3_Witness ==
    \E s \in ServiceNames :
        /\ cb[s].state = "Closed"
        /\ hist[s].openedAt # ZeroTime
        /\ ret["w1"].kind = "Response"

\* C4: a breaker that opened at time t leaves Open only for HalfOpen and only
\* later than t + 5s; it is never HalfOpen before t + 5s; and a route call or
\* health read of it later than t + 5s leaves it no longer Open.
C4_CoolDown ==
    [][\A s \in ServiceNames :
          /\ (cb[s].state = "Open" /\ cb'[s].state # "Open")
                => /\ cb'[s].state = "HalfOpen"
                   /\ now' > hist[s].openedAt + 5 * TicksPerSecond
          /\ cb'[s].state = "HalfOpen" => now' >= hist'[s].openedAt + 5 * TicksPerSecond
          /\ ( /\ cb[s].state = "Open"
               /\ now > hist[s].openedAt + 5 * TicksPerSecond
               /\ \/ \E wk \in Workers : Begins(wk) /\ ret'[wk].name = s
                  \/ GetServiceHealth(s)
                  \/ GetAllServiceStatus )
                => cb'[s].state = "HalfOpen"]_vars

\* C4 witness: the breaker is HalfOpen just after its cool-down.
C4_Witness ==
    \E s \in ServiceNames :
        /\ cb[s].state = "HalfOpen"
        /\ now = hist[s].openedAt + 5 * TicksPerSecond + 1

\* A health read: GetServiceHealth of some name, or GetAllServiceStatus.
HealthRead == (\E name \in Names : GetServiceHealth(name)) \/ GetAllServiceStatus

\* C9 as stated: a health read leaves every breaker as it was.
C9_HealthReadsChangeNothing == [][HealthRead => cb' = cb]_vars

\* C9 amended: a health read changes nothing but the breakers, and a breaker
\* only when its expiry has passed: then it makes the move the next route call
\* would make (a Closed breaker starts a new counting interval with zero counts,
\* an Open breaker becomes HalfOpen); a breaker whose expiry has not passed, and
\* a HalfOpen breaker, are left as they were.
C9_HealthReadsOnlyExpire ==
    [][HealthRead =>
          /\ UNCHANGED <<now, services, w, net, ret, build, hdrs, reqs>>
          /\ \A s \in ServiceNames :
                \/ cb'[s] = cb[s]
                \/ /\ cb[s].state = "Closed" /\ cb[s].expiry < now
                   /\ cb'[s] = [state |-> "Closed",
                                generation |-> cb[s].generation + 1,
                                counts |-> ZeroCounts, expiry |-> now + TicksPerSecond]
                \/ /\ cb[s].state = "Open" /\ cb[s].expiry < now
                   /\ cb'[s] = [state |-> "HalfOpen",
                                generation |-> cb[s].generation + 1,
                                counts |-> ZeroCounts, expiry |-> ZeroTime]
          /\ \A s \in ServiceNames :
                (cb[s].state = "HalfOpen" \/ cb[s].expiry >= now) => cb'[s] = cb[s]]_vars

\* C9 witness: the caller's last call was rejected by the Open breaker and the
\* breaker is HalfOpen with no probe admitted: a health read moved it.
C9_Witness ==
    \E s \in ServiceNames :
        /\ ret["w1"].kind = "ErrOpenState" /\ ret["w1"].name = s
        /\ cb[s].state = "HalfOpen"
        /\ cb[s].counts = ZeroCounts

\* The transport-level failures among the replies of one request.
FailedReply(r) == r.kind \in {"connerr", "ctxerr"}

\* C5: with maxRetries = N >= 1 and an upstream whose first k attempts fail at
\* transport level: when k < N and attempt k+1 is answered, exactly k+1 attempts
\* were made, with exactly k sleeps of 100ms, 200ms, ..., k*100ms between them,
\* and the answer is returned; when all of N attempts fail, exactly N attempts
\* were made, with N-1 sleeps of 100ms, ..., (N-1)*100ms and none after the
\* last, and the call returns the "all retry attempts failed" error.
C5_AttemptsAndSleeps ==
    \A wk \in Workers :
        LET r == ret[wk]
            log == net[wk]
            N == IF r.name \in DOMAIN services THEN services[r.name].MaxRetry ELSE 0
            k == Len(log) - 1 IN
        /\ r.kind = "Response"
              => /\ \A i \in 1..k : FailedReply(log[i])
                 /\ log[k + 1].kind = "response"
                 /\ k < N
                 /\ r.attempts = k + 1
                 /\ r.sleeps = [i \in 1..k |-> i]
        /\ r.kind = "AllRetriesFailed"
              => /\ \A i \in 1..Len(log) : FailedReply(log[i])
                 /\ Len(log) = N
                 /\ r.attempts = N
                 /\ r.sleeps = [i \in 1..(N - 1) |-> i]

\* C5 witness: maxRetries = 3, two failures then an answer, sleeps of 100ms
\* and 200ms.
C5_Witness ==
    /\ services["orders"].MaxRetry = 3
    /\ ret["w1"].kind = "Response"
    /\ Len(net["w1"]) = 3
    /\ ret["w1"].sleeps = <<1, 2>>

\* C6: when an attempt is answered with an HTTP response (any status code, its
\* body read), the request makes no further attempt, RouteRequest returns that
\* status code, those headers and that body, and the breaker does not count a
\* failure and does not open on that call; within the generation that admitted
\* the call it counts a success.
C6_ResponsesAreSuccesses ==
    [][\A wk \in Workers :
          (Completes(wk) /\ Delivered(wk).kind = "response")
          => LET s == w[wk].svc
                 r == Delivered(wk) IN
             /\ w'[wk].pc = "idle"
             /\ ret'[wk].kind = "Response"
             /\ ret'[wk].resp = [StatusCode |-> r.StatusCode, Headers |-> r.Header,
                                 Body |-> r.Body]
             /\ cb'[s].counts.TotalFailures <= cb[s].counts.TotalFailures
             /\ cb'[s].state = "Open" => cb[s].state = "Open"
             /\ (cb'[s].generation = cb[s].generation
                    /\ w[wk].generation = cb[s].generation)
                   => cb'[s].counts.TotalSuccesses
                         = cb[s].counts.TotalSuccesses + 1]_vars

\* C6 witness: a 500 from the first attempt of a service with retries left is
\* returned as it is, and the breaker holds one success and no failure.
C6_Witness ==
    /\ services["orders"].MaxRetry >= 2
    /\ ret["w1"].kind = "Response"
    /\ ret["w1"].resp = [StatusCode |-> 500, Headers |-> "h-err", Body |-> "b-err"]
    /\ ret["w1"].attempts = 1
    /\ cb["orders"].counts.TotalSuccesses = 1
    /\ cb["orders"].counts.TotalFailures = 0

\* C7 as stated: every attempt, retries included, is aborted only at its own
\* deadline, the configured timeout after the start of that attempt.
C7_DeadlinePerAttempt ==
    \A wk \in Workers :
        w[wk].pc = "attempt"
        => AttemptDeadline(w[wk])
              = w[wk].started + services[w[wk].svc].Timeout * TicksPerSecond

\* C8 as stated: once the caller's context is cancelled before any attempt of
\* the request has completed, the request begins no backoff sleep and no
\* further attempt.
C8_CancelStopsRetries ==
    [][\A wk \in Workers :
          (w[wk].cancelled /\ w[wk].early)
          => /\ ~(w[wk].pc # "sleep" /\ w'[wk].pc = "sleep")
             /\ ~(w'[wk].pc = "attempt" /\ w'[wk].attempt > w[wk].attempt)]_vars

\* C10 as stated: the target URL is the base URL followed by the inbound path
\* and the inbound query string, unchanged.
C10_TargetIsBaseThenPathAndQuery ==
    build.done => build.target = build.base \o RequestTarget(build.path, build.query)

\* The values of the names K of the header src, one name after the other.
RECURSIVE ValuesInOrder(_, _, _)
ValuesInOrder(src, order, i) ==
    IF i > Len(order) THEN <<>>
    ELSE src[order[i]] \o ValuesInOrder(src, order, i + 1)

\* C11: after copyHeaders the outbound header holds no name that, compared
\* without regard to letter case, is one of host, connection, content-length,
\* transfer-encoding, upgrade; and for every other name of the inbound header it
\* holds all the values of that name, duplicates included, the values of each
\* inbound entry in their original order, and nothing else.
C11_CopiesAllButDenied ==
    hdrs.done =>
        LET src == hdrs.src
            dst == hdrs.dst
            kept == { k \in DOMAIN src : ToLower(k) \notin
                        { <<"h", "o", "s", "t">>,
                          <<"c", "o", "n", "n", "e", "c", "t", "i", "o", "n">>,
                          <<"c", "o", "n", "t", "e", "n", "t", "-", "l", "e", "n", "g", "t", "h">>,
                          <<"t", "r", "a", "n", "s", "f", "e", "r", "-", "e", "n", "c", "o", "d",
                            "i", "n", "g">>,
                          <<"u", "p", "g", "r", "a", "d", "e">> } }
            same(n) == { k \in kept : ToLower(k) = ToLower(n) } IN
        /\ \A n \in DOMAIN dst : \E k \in kept : ToLower(k) = ToLower(n)
        /\ \A n \in DOMAIN dst, m \in DOMAIN dst : ToLower(n) = ToLower(m) => n = m
        /\ \A k \in kept :
              \/ /\ \A j \in same(k) : src[j] = <<>>
                 /\ \A n \in DOMAIN dst : ToLower(n) # ToLower(k)
              \/ \E n \in DOMAIN dst :
                    /\ ToLower(n) = ToLower(k)
                    /\ \E order \in RangeOrders(same(k)) :
                          dst[n] = ValuesInOrder(src, order, 1)

\* C11 witness: an inbound header with HOST, with X-A carrying a duplicate
\* value and with x-a has been copied: both spellings' values are there.
C11_Witness ==
    /\ hdrs.done
    /\ <<"H", "O", "S", "T">> \in DOMAIN hdrs.src
    /\ <<"x", "-", "a">> \in DOMAIN hdrs.src
    /\ <<"X", "-", "A">> \in DOMAIN hdrs.src
    /\ hdrs.src[<<"X", "-", "A">>] = <<"v1", "v1">>
    /\ hdrs.src[<<"x", "-", "a">>] = <<"v2">>
    /\ hdrs.dst = [n \in {<<"X", "-", "A">>} |-> <<"v2", "v1", "v1">>]

\* C12 as stated: for every descriptor the loaders produce, a RouteRequest
\* that has ended has returned a ProxyResponse or an error, one of the two, and
\* has not panicked.
C12_ReturnsResponseOrError ==
    \A wk \in Workers :
        (w[wk].pc = "idle" /\ ret[wk] # NothingReturned)
        => /\ ret[wk].kind # "Panic"
           /\ ret[wk].kind = "Response" <=> ret[wk].resp # NoResponse

\* C13: for two distinct registered services A and B, a step of a route call
\* to A (its admission or rejection, the end of one of its attempts, its
\* return) and a health read of A leave B's breaker as it was: state, counts,
\* generation and expiry; so a call to B is rejected only when B's own breaker
\* is Open or HalfOpen.
C13_BreakersIndependent ==
    [][\A a \in DOMAIN cb, b \in DOMAIN cb :
          /\ ( /\ a # b
               /\ \/ \E wk \in Workers : Begins(wk) /\ ret'[wk].name = a
                  \/ \E wk \in Workers : Completes(wk) /\ w[wk].svc = a
                  \/ GetServiceHealth(a) )
             => cb'[b] = cb[b]
          /\ (\E wk \in Workers :
                 /\ Begins(wk) /\ ret'[wk].name = b
                 /\ ret'[wk].kind \in {"ErrOpenState", "ErrTooManyRequests"})
             => cb[b].state # "Closed"]_vars

\* C13 witness: the breaker of orders opened in its first counting interval
\* and rejects, while users, called concurrently, is Closed in its second
\* counting interval with its own counts, and answers.
C13_Witness ==
    /\ cb["orders"].state = "Open"
    /\ cb["orders"].generation = 2
    /\ cb["users"].generation = 2
    /\ ret["w1"].name = "orders" /\ ret["w1"].kind = "ErrOpenState"
    /\ "users" \in DOMAIN cb
    /\ cb["users"].state = "Closed"
    /\ cb["users"].counts.TotalSuccesses = 2
    /\ ret["w2"].name = "users" /\ ret["w2"].kind = "Response"

\* C14 as stated: when a call admitted by the breaker returns while the breaker
\* is Closed, its outcome is in the window after the return: a failure has
\* raised the failure count by one and the breaker is Open exactly when the
\* raised counts have requests >= 3 and failures/requests >= 0.6; a success has
\* raised the success count by one; however long the call lasted.
C14_OutcomeRecorded ==
    [][\A wk \in Workers :
          LET s == w[wk].svc
              c == cb[s].counts
              failures == c.TotalFailures + 1 IN
          ( /\ w[wk].pc # "idle" /\ w'[wk].pc = "idle"
            /\ cb[s].state = "Closed" )
          => IF ret'[wk].kind = "Response"
             THEN /\ cb'[s].state = "Closed"
                  /\ cb'[s].counts.TotalSuccesses = c.TotalSuccesses + 1
             ELSE IF c.Requests >= 3 /\ 10 * failures >= 6 * c.Requests
             THEN cb'[s].state = "Open"
             ELSE /\ cb'[s].state = "Closed"
                  /\ cb'[s].counts.TotalFailures = failures]_vars

\* C15: when the breaker is Open, the upstream answers every attempt from some
\* moment on and route calls keep arriving, the breaker is eventually Closed
\* and Closed for ever after, by route calls and the passage of time alone.
C15_RecoversAndStaysClosed ==
    \A s \in ServiceNames : (cb[s].state = "Open") ~> [](cb[s].state = "Closed")

\* C15 witness: the breaker opened at time 0, went through HalfOpen after its
\* cool-down and is Closed again, ten answered probes later.
C15_Witness ==
    /\ hist["orders"].openedAt = 0
    /\ cb["orders"].state = "Closed"
    /\ cb["orders"].generation = 4
    /\ now > 5 * TicksPerSecond
    /\ ret["w1"].kind = "Response"

\* C16: a HalfOpen breaker has admitted at most 10 calls in its HalfOpen
\* period, whatever the interleaving; a call arriving when 10 are admitted
\* returns ErrTooManyRequests without entering executeRequest (no attempt
\* begins, nothing is asked of the transport, the counts stay); an earlier one
\* is admitted; and a probe of the period that fails leaves the breaker Open.
C16_ProbesLimited ==
    [][\A wk \in Workers, s \in ServiceNames :
          LET admitted == IF cb[s].state = "HalfOpen" THEN cb[s].counts.Requests ELSE 0 IN
          /\ cb'[s].state = "HalfOpen" => cb'[s].counts.Requests <= 10
          /\ ( /\ Begins(wk) /\ ret'[wk].name = s
               /\ cb'[s].state = "HalfOpen" )
             => IF admitted >= 10
                THEN /\ w'[wk].pc = "idle"
                     /\ ret'[wk].kind = "ErrTooManyRequests"
                     /\ net'[wk] = <<>>
                     /\ cb'[s] = cb[s]
                ELSE /\ w'[wk].pc = "attempt"
                     /\ cb'[s].counts.Requests = admitted + 1
          /\ ( /\ Completes(wk) /\ w[wk].svc = s
               /\ Delivered(wk).kind # "response"
               /\ cb[s].state = "HalfOpen"
               /\ w[wk].generation = cb[s].generation )
             => cb'[s].state = "Open"]_vars

\* C16 witness: with nine probes answered and the tenth in flight, an eleventh
\* call has been rejected.
C16_Witness ==
    /\ cb["orders"].state = "HalfOpen"
    /\ cb["orders"].counts.Requests = 10
    /\ cb["orders"].counts.TotalSuccesses = 9
    /\ \E wk \in Workers, other \in Workers :
          /\ w[other].pc = "attempt"
          /\ ret[wk].kind = "ErrTooManyRequests"

\* C17 as stated: when a request has a body and its first attempt transmitted
\* the whole of it, every attempt of the request transmitted the whole body.
C17_EveryAttemptSendsTheBody ==
    \A wk \in Workers :
        LET q == reqs[wk] IN
        (Len(q.Body) > 0 /\ Len(q.sent) >= 1 /\ q.sent[1] = q.Body)
        => \A i \in 1..Len(q.sent) : q.sent[i] = q.Body

====
